---- MODULE Spec2Model ----
(***************************************************************************)
(* Model of the flattened-device-tree decoder carried by the dtboverlay    *)
(* kernel module: header validation (fdt_check_header), the bounds         *)
(* predicates (check_off_, check_block_), and the tag walker               *)
(* (fdt_offset_ptr, fdt_next_tag, fdt_next_node), and the module init      *)
(* that loads the blob (of_overlay_init).                                  *)
(*                                                                         *)
(* A C u32 is kept at its full width as a pair <<hi, lo>> of 16-bit halves *)
(* (value = hi * 2^16 + lo); an int is the same pair read as two's         *)
(* complement.  All arithmetic on the pairs wraps modulo 2^32.             *)
(***************************************************************************)
EXTENDS Integers, Naturals, Sequences, FiniteSets, TLC

VARIABLES
    assume_mask,   \* FDT_ASSUME_MASK of the build
    pc,            \* position of the caller: "idle", "loop", "done", or a step of of_overlay_init
    fdt,           \* the blob handed to the decoder: base address and header bytes
    ret,           \* fdt_check_header's return value
    loaded,        \* header fields fdt_check_header loaded through fdt32_ld
    blk,           \* arguments of a check_block_ call
    blk_ret,       \* check_block_'s return value
    dt,            \* the 32-bit words stored from fdt + off_dt_struct on
    fill,          \* the word repeated in memory after the words of dt
    depth,         \* fdt_next_node: *depth, or NULL
    offset,        \* fdt_next_node: offset
    nextoffset,    \* fdt_next_node: nextoffset
    tag,           \* fdt_next_node: tag
    node_ret,      \* fdt_next_node's return value
    ov             \* of_overlay_init: its locals and the kernel calls it has made

vars == <<assume_mask, pc, fdt, ret, loaded, blk, blk_ret,
          dt, fill, depth, offset, nextoffset, tag, node_ret, ov>>

-----------------------------------------------------------------------------
(* 32-bit words *)

H == 65536

U32(n) == <<n \div H, n % H>>

Add32(a, b) ==
    LET lo == a[2] + b[2]
        hi == a[1] + b[1] + (lo \div H)
    IN  <<hi % H, lo % H>>

Neg32(a) == Add32(<<(H - 1) - a[1], (H - 1) - a[2]>>, U32(1))

Sub32(a, b) == Add32(a, Neg32(b))

Lt32(a, b) == a[1] < b[1] \/ (a[1] = b[1] /\ a[2] < b[2])

Le32(a, b) == a = b \/ Lt32(a, b)

\* an int is negative when its sign bit is set
IsNeg(a) == a[1] >= H \div 2

\* signed comparison of two ints
SLt32(a, b) ==
    IF IsNeg(a) # IsNeg(b) THEN IsNeg(a) ELSE Lt32(a, b)

INT_MAX == <<32767, 65535>>

RECURSIVE BitAnd(_, _)
BitAnd(a, b) ==
    IF a = 0 \/ b = 0 THEN 0
    ELSE (a % 2) * (b % 2) + 2 * BitAnd(a \div 2, b \div 2)

-----------------------------------------------------------------------------
(* Assumption policy *)

ASSUME_PERFECT == 255
ASSUME_VALID_DTB == 1
ASSUME_VALID_INPUT == 2
ASSUME_LATEST == 4
ASSUME_NO_ROLLBACK == 8
ASSUME_LIBFDT_ORDER == 16
ASSUME_LIBFDT_FLAWLESS == 32

\* mutant: && written for &
can_assume_logical_and(assume, mask) == assume # 0 /\ mask # 0

\* mutant: the test inverted
can_assume_inverted(assume, mask) == BitAnd(assume, mask) = 0

\* FDT_ASSUME_MASK & mask, with the build's FDT_ASSUME_MASK passed as assume
can_assume_(assume, mask) == BitAnd(assume, mask) # 0

-----------------------------------------------------------------------------
(* Format constants and error codes *)

FDT_MAGIC == <<53261, 65261>>          \* 0xd00dfeed

FDT_V1_SIZE == 28
FDT_V2_SIZE == 32
FDT_V3_SIZE == 36
FDT_V16_SIZE == 36
FDT_V17_SIZE == 40

FDT_FIRST_SUPPORTED_VERSION == 2
FDT_LAST_COMPATIBLE_VERSION == 16
FDT_LAST_SUPPORTED_VERSION == 17

FDT_TAGSIZE == 4

\* sizeof(struct fdt_property): tag, len, nameoff
SIZEOF_FDT_PROPERTY == 12

FDT_BEGIN_NODE == <<0, 1>>
FDT_END_NODE == <<0, 2>>
FDT_PROP == <<0, 3>>
FDT_NOP == <<0, 4>>
FDT_END == <<0, 9>>

FDT_ERR_NOTFOUND == 1
FDT_ERR_BADOFFSET == 4
FDT_ERR_TRUNCATED == 8
FDT_ERR_BADMAGIC == 9
FDT_ERR_BADVERSION == 10
FDT_ERR_BADSTRUCTURE == 11
FDT_ERR_ALIGNMENT == 19

-----------------------------------------------------------------------------
(* Header model: every field is four big-endian bytes of the blob *)

\* bp[0] << 24 | bp[1] << 16 | bp[2] << 8 | bp[3]  (bp is 1-indexed here)
fdt32_ld(bp) == <<bp[1] * 256 + bp[2], bp[3] * 256 + bp[4]>>

fdt_get_header(f, field) == fdt32_ld(f[field])

fdt_magic(f) == fdt_get_header(f, "magic")
fdt_totalsize(f) == fdt_get_header(f, "totalsize")
fdt_off_dt_struct(f) == fdt_get_header(f, "off_dt_struct")
fdt_off_dt_strings(f) == fdt_get_header(f, "off_dt_strings")
fdt_off_mem_rsvmap(f) == fdt_get_header(f, "off_mem_rsvmap")
fdt_version(f) == fdt_get_header(f, "version")
fdt_last_comp_version(f) == fdt_get_header(f, "last_comp_version")
fdt_size_dt_strings(f) == fdt_get_header(f, "size_dt_strings")
fdt_size_dt_struct(f) == fdt_get_header(f, "size_dt_struct")

-----------------------------------------------------------------------------
(* Bounds checker *)

\* mutant: the upper end excluded
check_off_exclusive(hdrsize, totalsize, off) ==
    Le32(hdrsize, off) /\ Lt32(off, totalsize)

check_off_(hdrsize, totalsize, off) ==
    Le32(hdrsize, off) /\ Le32(off, totalsize)

\* mutant: no overflow test
check_block_no_overflow_test(hdrsize, totalsize, base, size) ==
    IF ~check_off_(hdrsize, totalsize, base) THEN FALSE
    ELSE IF ~check_off_(hdrsize, totalsize, Add32(base, size)) THEN FALSE
    ELSE TRUE

check_block_(hdrsize, totalsize, base, size) ==
    IF ~check_off_(hdrsize, totalsize, base) THEN FALSE  \* block start out of bounds
    ELSE IF Lt32(Add32(base, size), base) THEN FALSE     \* overflow
    ELSE IF ~check_off_(hdrsize, totalsize, Add32(base, size))
         THEN FALSE                                      \* block end out of bounds
    ELSE TRUE

-----------------------------------------------------------------------------
(* Header validator *)

\* mutant: version 17 given the version-16 size
fdt_header_size_v17_as_v16(version) ==
    IF Le32(version, U32(1)) THEN U32(FDT_V1_SIZE)
    ELSE IF Le32(version, U32(2)) THEN U32(FDT_V2_SIZE)
    ELSE IF Le32(version, U32(3)) THEN U32(FDT_V3_SIZE)
    ELSE IF Le32(version, U32(17)) THEN U32(FDT_V16_SIZE)
    ELSE U32(FDT_V17_SIZE)

fdt_header_size_(version) ==
    IF Le32(version, U32(1)) THEN U32(FDT_V1_SIZE)
    ELSE IF Le32(version, U32(2)) THEN U32(FDT_V2_SIZE)
    ELSE IF Le32(version, U32(3)) THEN U32(FDT_V3_SIZE)
    ELSE IF Le32(version, U32(16)) THEN U32(FDT_V16_SIZE)
    ELSE U32(FDT_V17_SIZE)

\* mutant: LATEST not consulted
fdt_header_size_by_version_only(f, assume) == fdt_header_size_(fdt_version(f))

fdt_header_size(f, assume) ==
    IF can_assume_(assume, ASSUME_LATEST) THEN U32(FDT_V17_SIZE)
    ELSE fdt_header_size_(fdt_version(f))

\* mutant: 4-byte alignment tested
misaligned_mask_3(f) == BitAnd(f.addr, 3) # 0

\* (uintptr_t)fdt & 7
misaligned(f) == BitAnd(f.addr, 7) # 0

\* mutant: == written for !=
bad_magic_inverted(f) == fdt_magic(f) = FDT_MAGIC

\* fdt_magic(fdt) != FDT_MAGIC
bad_magic(f) == fdt_magic(f) # FDT_MAGIC

\* (fdt_version(fdt) < FDT_FIRST_SUPPORTED_VERSION)
\*   || (fdt_last_comp_version(fdt) > FDT_LAST_SUPPORTED_VERSION)
bad_version_range(f) ==
    Lt32(fdt_version(f), U32(FDT_FIRST_SUPPORTED_VERSION))
    \/ Lt32(U32(FDT_LAST_SUPPORTED_VERSION), fdt_last_comp_version(f))

\* mutant: <= written for <
bad_version_order_le(f) == Le32(fdt_version(f), fdt_last_comp_version(f))

\* fdt_version(fdt) < fdt_last_comp_version(fdt)
bad_version_order(f) == Lt32(fdt_version(f), fdt_last_comp_version(f))

\* (fdt_totalsize(fdt) < hdrsize) || (fdt_totalsize(fdt) > INT_MAX)
bad_totalsize(f, hdrsize) ==
    Lt32(fdt_totalsize(f), hdrsize) \/ Lt32(INT_MAX, fdt_totalsize(f))

\* Bounds check memrsv block
bad_memrsv(f, hdrsize) ==
    ~check_off_(hdrsize, fdt_totalsize(f), fdt_off_mem_rsvmap(f))

\* Bounds check structure block
bad_struct(f, hdrsize, assume) ==
    IF ~can_assume_(assume, ASSUME_LATEST) /\ Lt32(fdt_version(f), U32(17))
    THEN ~check_off_(hdrsize, fdt_totalsize(f), fdt_off_dt_struct(f))
    ELSE ~check_block_(hdrsize, fdt_totalsize(f),
                       fdt_off_dt_struct(f), fdt_size_dt_struct(f))

\* Bounds check strings block
bad_strings(f, hdrsize) ==
    ~check_block_(hdrsize, fdt_totalsize(f),
                  fdt_off_dt_strings(f), fdt_size_dt_strings(f))

\* The header fields fdt_check_header has passed to fdt32_ld when it returns
\* from its n-th return statement (1 = alignment ... 9 = return 0).
fields_loaded(f, assume, n) ==
    LET latest  == can_assume_(assume, ASSUME_LATEST)
        valid   == can_assume_(assume, ASSUME_VALID_DTB)
        Lmagic  == {"magic"}
        Lver1   == Lmagic \cup
                   (IF Lt32(fdt_version(f), U32(FDT_FIRST_SUPPORTED_VERSION))
                    THEN {"version"} ELSE {"version", "last_comp_version"})
        Lver    == IF latest THEN Lmagic
                   ELSE Lmagic \cup {"version", "last_comp_version"}
        Ltotal  == Lver \cup {"totalsize"}
        Lrsv    == Ltotal \cup {"off_mem_rsvmap"}
        Lstruct == Lrsv \cup
                   (IF ~latest /\ Lt32(fdt_version(f), U32(17))
                    THEN {"off_dt_struct"}
                    ELSE {"off_dt_struct", "size_dt_struct"})
        Lstr    == Lstruct \cup {"off_dt_strings", "size_dt_strings"}
    IN  CASE n = 1 -> {}
          [] n = 2 -> Lmagic
          [] n = 3 -> Lver1
          [] n = 4 -> Lver
          [] n = 5 -> Ltotal
          [] n = 6 -> Lrsv
          [] n = 7 -> Lstruct
          [] n = 8 -> Lstr
          [] OTHER -> IF valid THEN Lver ELSE Lstr

\* The value fdt_check_header returns (rc) and the fields it loaded on the way.
fdt_check_header(f, assume) ==
    LET hdrsize == fdt_header_size(f, assume)
        latest  == can_assume_(assume, ASSUME_LATEST)
        valid   == can_assume_(assume, ASSUME_VALID_DTB)
        Return(n, rc) == [rc |-> rc, loaded |-> fields_loaded(f, assume, n)]
    IN
    IF misaligned(f) THEN Return(1, -FDT_ERR_ALIGNMENT)
    ELSE IF bad_magic(f) THEN Return(2, -FDT_ERR_BADMAGIC)
    ELSE IF ~latest /\ bad_version_range(f) THEN Return(3, -FDT_ERR_BADVERSION)
    ELSE IF ~latest /\ bad_version_order(f) THEN Return(4, -FDT_ERR_BADVERSION)
    ELSE IF ~valid /\ bad_totalsize(f, hdrsize) THEN Return(5, -FDT_ERR_TRUNCATED)
    ELSE IF ~valid /\ bad_memrsv(f, hdrsize) THEN Return(6, -FDT_ERR_TRUNCATED)
    ELSE IF ~valid /\ bad_struct(f, hdrsize, assume)
         THEN Return(7, -FDT_ERR_TRUNCATED)
    ELSE IF ~valid /\ bad_strings(f, hdrsize) THEN Return(8, -FDT_ERR_TRUNCATED)
    ELSE Return(9, 0)

-----------------------------------------------------------------------------
(* Inputs of the header validator *)

\* the four big-endian bytes that store the word w in a blob
cpu_to_fdt32(w) == <<w[1] \div 256, w[1] % 256, w[2] \div 256, w[2] % 256>>

Stored(S) == {cpu_to_fdt32(w) : w \in S}

AssumeMasks ==
    {0, ASSUME_VALID_DTB, ASSUME_VALID_INPUT, ASSUME_LATEST,
     ASSUME_VALID_DTB + ASSUME_LATEST, ASSUME_PERFECT}

Blobs ==
    [addr              : {4096, 4100},
     magic             : {<<208, 13, 254, 237>>, <<0, 0, 0, 0>>},
     totalsize         : Stored({U32(31), U32(36), U32(64), INT_MAX, <<32768, 0>>}),
     off_dt_struct     : Stored({U32(36), U32(40), U32(64)}),
     off_dt_strings    : Stored({U32(36), U32(56), U32(64)}),
     off_mem_rsvmap    : Stored({U32(36), U32(40), U32(65)}),
     version           : Stored({U32(1), U32(2), U32(16), U32(17)}),
     last_comp_version : Stored({U32(2), U32(16), U32(18)}),
     boot_cpuid_phys   : Stored({U32(0)}),
     size_dt_strings   : Stored({U32(0), U32(8), <<65535, 65520>>}),
     size_dt_struct    : Stored({U32(0), U32(16), <<65535, 65520>>})]

NoBlob == [addr |-> 0]

\* a null pointer; a pointer into the structure block is the offset it points at,
\* and a non-null int pointer is <<n>>, n the int it points at
NULL == <<>>

\* what a dereference of a null pointer leaves in place of a word
Fault == <<-1, -1>>

\* fdt_next_node's tag before fdt_next_tag has returned one
NoTag == <<>>

-----------------------------------------------------------------------------
(* A caller validates one blob: Spec *)

\* of_overlay_init before it is entered: dtbfile, dtb_begin and ret are
\* uninitialized locals (<<>>), size is 0, and no kernel call has been made
NotLoaded ==
    [dtbfile |-> <<>>, dtb_begin |-> <<>>, ret |-> <<>>, size |-> 0,
     calls |-> <<>>, result |-> <<>>]

Init ==
    /\ assume_mask \in AssumeMasks
    /\ pc = "idle"
    /\ fdt = NoBlob
    /\ ret = 0
    /\ loaded = {}
    /\ blk = <<>>
    /\ blk_ret = FALSE
    /\ dt = <<>>
    /\ fill = U32(0)
    /\ depth = NULL
    /\ offset = U32(0)
    /\ nextoffset = U32(0)
    /\ tag = NoTag
    /\ node_ret = U32(0)
    /\ ov = NotLoaded

Call_fdt_check_header ==
    /\ pc = "idle"
    /\ \E f \in Blobs :
         /\ fdt' = f
         /\ ret' = fdt_check_header(f, assume_mask).rc
         /\ loaded' = fdt_check_header(f, assume_mask).loaded
    /\ pc' = "done"
    /\ UNCHANGED <<assume_mask, blk, blk_ret, dt, fill, depth, offset,
                   nextoffset, tag, node_ret, ov>>

Next == Call_fdt_check_header

Spec == Init /\ [][Next]_vars

-----------------------------------------------------------------------------
(* What the format description says of a header, stated on the field values *)

Assumed(assume, bit) == (assume \div bit) % 2 = 1

Aligned8(f) == f.addr % 8 = 0

MagicWrong(f) == f.magic # <<208, 13, 254, 237>>

VersionOutOfBracket(f) ==
    \/ Lt32(fdt_version(f), <<0, 2>>)
    \/ Lt32(<<0, 17>>, fdt_last_comp_version(f))
    \/ Lt32(fdt_version(f), fdt_last_comp_version(f))

\* header length of the five version tiers, 40 when LATEST is assumed
HeaderLen(f, assume) ==
    LET v == fdt_version(f) IN
    IF Assumed(assume, 4) THEN <<0, 40>>
    ELSE IF v[1] = 0 /\ v[2] <= 1 THEN <<0, 28>>
    ELSE IF v[1] = 0 /\ v[2] <= 2 THEN <<0, 32>>
    ELSE IF v[1] = 0 /\ v[2] <= 16 THEN <<0, 36>>
    ELSE <<0, 40>>

OffsetInside(f, assume, off) ==
    Le32(HeaderLen(f, assume), off) /\ Le32(off, fdt_totalsize(f))

\* base inside and size no larger than what is left up to totalsize
BlockInside(f, assume, base, size) ==
    /\ OffsetInside(f, assume, base)
    /\ Le32(size, Sub32(fdt_totalsize(f), base))

StructOutside(f, assume) ==
    IF ~Assumed(assume, 4) /\ Lt32(fdt_version(f), <<0, 17>>)
    THEN ~OffsetInside(f, assume, fdt_off_dt_struct(f))
    ELSE ~BlockInside(f, assume, fdt_off_dt_struct(f), fdt_size_dt_struct(f))

SizesOutside(f, assume) ==
    \/ Lt32(fdt_totalsize(f), HeaderLen(f, assume))
    \/ Lt32(INT_MAX, fdt_totalsize(f))
    \/ ~OffsetInside(f, assume, fdt_off_mem_rsvmap(f))
    \/ StructOutside(f, assume)
    \/ ~BlockInside(f, assume, fdt_off_dt_strings(f), fdt_size_dt_strings(f))

-----------------------------------------------------------------------------
(* Claims on fdt_check_header *)

\* C1: fdt_check_header returns the verdict of the earliest check, in the order
\* alignment, magic, version, truncation, that fails and is not skipped by the
\* assumption mask (LATEST skips the version check, VALID_DTB the truncation
\* checks), and returns 0 only when no enabled check fails.
C1_FirstFailingCheckDecides ==
    pc = "done" =>
        LET latest == Assumed(assume_mask, 4)
            valid  == Assumed(assume_mask, 1)
            verfail == ~latest /\ VersionOutOfBracket(fdt)
            sizefail == ~valid /\ SizesOutside(fdt, assume_mask)
        IN  /\ (ret = -19) <=> ~Aligned8(fdt)
            /\ (ret = -9) <=> (Aligned8(fdt) /\ MagicWrong(fdt))
            /\ (ret = -10) <=> (Aligned8(fdt) /\ ~MagicWrong(fdt) /\ verfail)
            /\ (ret = -8) <=> (Aligned8(fdt) /\ ~MagicWrong(fdt) /\ ~verfail
                               /\ sizefail)
            /\ (ret = 0) <=> (Aligned8(fdt) /\ ~MagicWrong(fdt) /\ ~verfail
                              /\ ~sizefail)

\* a blob failing the version and the truncation checks, validated with LATEST
\* assumed: the version check is skipped and Truncated is the verdict
C1_Witness ==
    /\ pc = "done"
    /\ assume_mask = 4
    /\ Aligned8(fdt) /\ ~MagicWrong(fdt)
    /\ VersionOutOfBracket(fdt)
    /\ SizesOutside(fdt, assume_mask)
    /\ ret = -8

Scenario1 ==
    [addr              |-> 4096,
     magic             |-> <<208, 13, 254, 237>>,
     totalsize         |-> cpu_to_fdt32(U32(64)),
     off_dt_struct     |-> cpu_to_fdt32(U32(40)),
     off_dt_strings    |-> cpu_to_fdt32(U32(56)),
     off_mem_rsvmap    |-> cpu_to_fdt32(U32(36)),
     version           |-> cpu_to_fdt32(U32(17)),
     last_comp_version |-> cpu_to_fdt32(U32(16)),
     boot_cpuid_phys   |-> cpu_to_fdt32(U32(0)),
     size_dt_strings   |-> cpu_to_fdt32(U32(8)),
     size_dt_struct    |-> cpu_to_fdt32(U32(16))]

\* C2 as stated: with no assumptions the scenario-1 header (version 17,
\* totalsize 64, structure 40+16, strings 56+8, reservation offset 36)
\* validates successfully.
C2_Scenario1Succeeds ==
    (pc = "done" /\ assume_mask = 0 /\ fdt = Scenario1) => ret = 0

\* C2, amended: with no assumptions the scenario-1 header is rejected as
\* Truncated, its reservation offset 36 lying below the 40-byte header of
\* version 17.
C2_Scenario1Truncated ==
    (pc = "done" /\ assume_mask = 0 /\ fdt = Scenario1) => ret = -8

C2_Witness ==
    pc = "done" /\ assume_mask = 0 /\ fdt = Scenario1 /\ loaded # {}

MaskSubset(M, M2) == \A b \in {1, 2, 4, 8, 16, 32, 64, 128} :
                         Assumed(M, b) => Assumed(M2, b)

\* C3 as stated: a blob that validates under a mask validates under every
\* larger mask.
C3_MoreAssumptionsKeepSuccess ==
    (pc = "done" /\ ret = 0) =>
        \A M2 \in AssumeMasks :
            MaskSubset(assume_mask, M2) => fdt_check_header(fdt, M2).rc = 0

\* C3, amended: a blob that validates under a mask M validates under every
\* larger mask M2, unless M2 adds LATEST without assuming VALID_DTB and the
\* blob's version is below 17.
C3_MoreAssumptionsKeepSuccessButLatest ==
    (pc = "done" /\ ret = 0) =>
        \A M2 \in AssumeMasks :
            (/\ MaskSubset(assume_mask, M2)
             /\ (\/ Assumed(assume_mask, 4)
                 \/ ~Assumed(M2, 4)
                 \/ Assumed(M2, 1)
                 \/ ~Lt32(fdt_version(fdt), <<0, 17>>)))
            => fdt_check_header(fdt, M2).rc = 0

\* a version-17 blob found valid with no assumption, so that every mask is larger
C3_Witness ==
    /\ pc = "done" /\ ret = 0 /\ assume_mask = 0
    /\ fdt_version(fdt) = <<0, 17>>
    /\ fdt_check_header(fdt, 4).rc = 0

\* C4 as stated: under any mask, a blob that validates has its header length
\* within totalsize.
C4_HeaderWithinTotalsize ==
    (pc = "done" /\ ret = 0) =>
        Le32(HeaderLen(fdt, assume_mask), fdt_totalsize(fdt))

\* C4, amended: under any mask that does not assume VALID_DTB, a blob that
\* validates has its header length within totalsize.
C4_HeaderWithinTotalsizeWhenChecked ==
    (pc = "done" /\ ret = 0 /\ ~Assumed(assume_mask, 1)) =>
        Le32(HeaderLen(fdt, assume_mask), fdt_totalsize(fdt))

\* a version-16 blob validated with LATEST assumed: header length 40, not 36
C4_Witness ==
    /\ pc = "done" /\ ret = 0 /\ assume_mask = 4
    /\ fdt_version(fdt) = <<0, 16>>

\* C5 as stated: every blob with a wrong magic gets BadMagic, whatever the mask
\* and the other fields.
C5_WrongMagicIsBadMagic ==
    (pc = "done" /\ MagicWrong(fdt)) => ret = -9

\* C5, amended: every 8-byte-aligned blob with a wrong magic gets BadMagic,
\* whatever the mask and the other fields, none of which is loaded.
C5_AlignedWrongMagicIsBadMagic ==
    (pc = "done" /\ Aligned8(fdt) /\ MagicWrong(fdt)) =>
        (ret = -9 /\ loaded = {"magic"})

\* wrong magic on a blob whose version and sizes are wrong too
C5_Witness ==
    /\ pc = "done" /\ Aligned8(fdt) /\ MagicWrong(fdt)
    /\ VersionOutOfBracket(fdt) /\ SizesOutside(fdt, assume_mask)
    /\ assume_mask = 0 /\ ret = -9

\* C6: a blob whose address is not a multiple of 8 gets AlignmentError under
\* every mask and header content, before any header field is loaded.
C6_AlignmentUnconditional ==
    (pc = "done" /\ ~Aligned8(fdt)) => (ret = -19 /\ loaded = {})

\* a misaligned, otherwise well-formed blob validated under ASSUME_PERFECT
C6_Witness ==
    /\ pc = "done" /\ ~Aligned8(fdt) /\ assume_mask = 255
    /\ ~MagicWrong(fdt) /\ ~VersionOutOfBracket(fdt)
    /\ ret = -19

\* C7: without LATEST an aligned blob of correct magic gets BadVersion exactly
\* when version < 2, last_comp_version > 17 or version < last_comp_version;
\* with LATEST no blob gets BadVersion.
C7_BadVersionExactly ==
    pc = "done" =>
        /\ (~Assumed(assume_mask, 4) /\ Aligned8(fdt) /\ ~MagicWrong(fdt))
             => ((ret = -10) <=> VersionOutOfBracket(fdt))
        /\ Assumed(assume_mask, 4) => ret # -10

\* BadVersion for the order of the two versions alone
C7_Witness ==
    /\ pc = "done" /\ ~Assumed(assume_mask, 4)
    /\ Aligned8(fdt) /\ ~MagicWrong(fdt)
    /\ fdt_version(fdt) = <<0, 2>> /\ fdt_last_comp_version(fdt) = <<0, 16>>
    /\ ret = -10

\* C8: with no assumptions, an aligned blob that passes the magic and version
\* checks gets Truncated exactly when totalsize is below the header length or
\* above INT_MAX, or off_mem_rsvmap is outside [header length, totalsize], or
\* the structure check fails (offset only below version 17, the whole block
\* from version 17), or the strings block is not wholly inside; otherwise 0.
C8_TruncatedExactly ==
    (/\ pc = "done" /\ assume_mask = 0
     /\ Aligned8(fdt) /\ ~MagicWrong(fdt) /\ ~VersionOutOfBracket(fdt))
    => LET len   == HeaderLen(fdt, 0)
           total == fdt_totalsize(fdt)
           inside(off) == Le32(len, off) /\ Le32(off, total)
           whole(base, size) == inside(base) /\ Le32(size, Sub32(total, base))
           truncated ==
               \/ Lt32(total, len)
               \/ Lt32(INT_MAX, total)
               \/ ~inside(fdt_off_mem_rsvmap(fdt))
               \/ (Lt32(fdt_version(fdt), <<0, 17>>)
                   /\ ~inside(fdt_off_dt_struct(fdt)))
               \/ (~Lt32(fdt_version(fdt), <<0, 17>>)
                   /\ ~whole(fdt_off_dt_struct(fdt), fdt_size_dt_struct(fdt)))
               \/ ~whole(fdt_off_dt_strings(fdt), fdt_size_dt_strings(fdt))
       IN  /\ (ret = -8) <=> truncated
           /\ ~truncated => ret = 0

\* a version-16 blob accepted although its size_dt_struct would run far past
\* totalsize
C8_Witness ==
    /\ pc = "done" /\ assume_mask = 0 /\ ret = 0
    /\ fdt_version(fdt) = <<0, 16>>
    /\ fdt_size_dt_struct(fdt) = <<65535, 65520>>

-----------------------------------------------------------------------------
(* check_block_ applied to arguments of its own: SpecBlock *)

BlockHdrsizes == {U32(FDT_V1_SIZE), U32(FDT_V17_SIZE)}

BlockTotalsizes == {U32(0), U32(36), U32(64), INT_MAX, <<65535, 65535>>}

BlockBases == {U32(0), U32(28), U32(40), U32(63), INT_MAX, <<65535, 65535>>}

BlockSizes == {U32(0), U32(1), U32(24), INT_MAX, <<65535, 65520>>,
               <<65535, 65535>>}

BlockArgs ==
    UNION {{[hdrsize |-> h, totalsize |-> t, base |-> b, size |-> s] :
                b \in BlockBases \cup {h, t, Sub32(t, U32(1))},
                s \in BlockSizes} :
           h \in BlockHdrsizes, t \in BlockTotalsizes}

InitBlock ==
    /\ assume_mask = 0
    /\ pc = "idle"
    /\ fdt = NoBlob
    /\ ret = 0
    /\ loaded = {}
    /\ blk \in BlockArgs
    /\ blk_ret = FALSE
    /\ dt = <<>>
    /\ fill = U32(0)
    /\ depth = NULL
    /\ offset = U32(0)
    /\ nextoffset = U32(0)
    /\ tag = NoTag
    /\ node_ret = U32(0)
    /\ ov = NotLoaded

Call_check_block_ ==
    /\ pc = "idle"
    /\ blk_ret' = check_block_(blk.hdrsize, blk.totalsize, blk.base, blk.size)
    /\ pc' = "done"
    /\ UNCHANGED <<assume_mask, fdt, ret, loaded, blk, dt, fill, depth, offset,
                   nextoffset, tag, node_ret, ov>>

NextBlock == Call_check_block_

SpecBlock == InitBlock /\ [][NextBlock]_vars

\* C9: check_block_ is true exactly when hdrsize <= base <= totalsize, base +
\* size computed without wrapping does not exceed 2^32 - 1, and hdrsize <=
\* base + size <= totalsize; it rejects base = totalsize - 1 with size =
\* INT_MAX, and accepts a block of size 0 at base = hdrsize or base =
\* totalsize (of an interval [hdrsize, totalsize] that is not empty).
C9_BlockInBoundsExactly ==
    pc = "done" =>
        LET h == blk.hdrsize
            t == blk.totalsize
            b == blk.base
            s == blk.size
            carry == (b[1] + s[1] + ((b[2] + s[2]) \div 65536)) \div 65536
            sum == <<(b[1] + s[1] + ((b[2] + s[2]) \div 65536)) % 65536,
                     (b[2] + s[2]) % 65536>>
        IN  /\ blk_ret <=> (/\ Le32(h, b) /\ Le32(b, t)
                            /\ carry = 0
                            /\ Le32(h, sum) /\ Le32(sum, t))
            /\ (b = Sub32(t, <<0, 1>>) /\ s = INT_MAX) => ~blk_ret
            /\ (s = <<0, 0>> /\ Le32(h, t) /\ (b = h \/ b = t)) => blk_ret

\* a block of size 0 accepted at base = totalsize, above hdrsize
C9_Witness ==
    /\ pc = "done"
    /\ blk.size = <<0, 0>> /\ blk.base = blk.totalsize
    /\ Lt32(blk.hdrsize, blk.base)
    /\ blk_ret

\* a block whose end wraps back into [hdrsize, totalsize] and is rejected
C9_OverflowReached ==
    /\ pc = "done"
    /\ Lt32(Add32(blk.base, blk.size), blk.base)
    /\ check_off_(blk.hdrsize, blk.totalsize, Add32(blk.base, blk.size))
    /\ check_off_(blk.hdrsize, blk.totalsize, blk.base)
    /\ ~blk_ret

-----------------------------------------------------------------------------
(* Memory of the structure block *)

\* the word stored at the 4-byte cell holding byte offset o from
\* fdt + off_dt_struct: a word of dt, and fill after them
WordAt(mem, o) ==
    IF o[1] = 0 /\ o[2] \div 4 < Len(mem.dt)
    THEN mem.dt[(o[2] \div 4) + 1]
    ELSE mem.fill

\* the byte at offset o from fdt + off_dt_struct
ByteAt(mem, o) == cpu_to_fdt32(WordAt(mem, o))[(o[2] % 4) + 1]

\* fdt32_to_cpu(*p) for p at offset o from fdt + off_dt_struct
fdt32_to_cpu_at(mem, o) ==
    fdt32_ld(<<ByteAt(mem, o), ByteAt(mem, Add32(o, U32(1))),
               ByteAt(mem, Add32(o, U32(2))), ByteAt(mem, Add32(o, U32(3)))>>)

-----------------------------------------------------------------------------
(* Tag walker *)

\* fdt + fdt_off_dt_struct(fdt) + offset, named by offset
fdt_offset_ptr_(f, off) == off

fdt_offset_ptr(f, assume, off, len) ==
    LET uoffset   == off
        absoffset == Add32(off, fdt_off_dt_struct(f))
    IN
    IF IsNeg(off) THEN NULL
    ELSE IF ~can_assume_(assume, ASSUME_VALID_INPUT)
            /\ (\/ Lt32(absoffset, uoffset)
                \/ Lt32(Add32(absoffset, len), absoffset)
                \/ Lt32(fdt_totalsize(f), Add32(absoffset, len)))
    THEN NULL
    ELSE IF (can_assume_(assume, ASSUME_LATEST)
             \/ ~Lt32(fdt_version(f), U32(17)))
            /\ (\/ Lt32(Add32(uoffset, len), uoffset)
                \/ Lt32(fdt_size_dt_struct(f), Add32(off, len)))
    THEN NULL
    ELSE fdt_offset_ptr_(f, off)

\* FDT_TAGALIGN(x): (x + FDT_TAGSIZE - 1) & ~(FDT_TAGSIZE - 1)
FDT_TAGALIGN(x) ==
    LET y == Add32(x, U32(FDT_TAGSIZE - 1))
    IN  <<y[1], y[2] - (y[2] % FDT_TAGSIZE)>>

\* do { p = fdt_offset_ptr(fdt, offset++, 1); } while (p && (*p != '\0'));
\* yields p and offset as the loop leaves them
RECURSIVE skip_name(_, _, _, _)
skip_name(f, assume, mem, off) ==
    LET p == fdt_offset_ptr(f, assume, off, U32(1))
    IN  IF p = NULL \/ ByteAt(mem, p) = 0
        THEN [p |-> p, offset |-> Add32(off, U32(1))]
        ELSE skip_name(f, assume, mem, Add32(off, U32(1)))

\* the offset fdt_next_tag has reached after the tag's payload, and whether the
\* payload could be read; tag Fault stands for the dereference of a null
\* pointer, possible only when VALID_DTB is assumed
fdt_next_tag(f, assume, mem, startoffset) ==
    LET valid  == can_assume_(assume, ASSUME_VALID_DTB)
        latest == can_assume_(assume, ASSUME_LATEST)
        Err(e) == Neg32(U32(e))
        tagp   == fdt_offset_ptr(f, assume, startoffset, U32(FDT_TAGSIZE))
        t      == fdt32_to_cpu_at(mem, tagp)
        off1   == Add32(startoffset, U32(FDT_TAGSIZE))
        name   == skip_name(f, assume, mem, off1)
        lenp   == fdt_offset_ptr(f, assume, off1, U32(4))
        len    == fdt32_to_cpu_at(mem, lenp)
        off2   == Add32(off1, Add32(U32(SIZEOF_FDT_PROPERTY - FDT_TAGSIZE), len))
        off3   == IF ~latest /\ Lt32(fdt_version(f), U32(16))
                     /\ Le32(U32(8), len)
                     /\ Sub32(off2, len)[2] % 8 # 0
                  THEN Add32(off2, U32(4))
                  ELSE off2
        Finish(off) ==
            IF fdt_offset_ptr(f, assume, startoffset, Sub32(off, startoffset))
               = NULL
            THEN [tag |-> FDT_END, nextoffset |-> Err(FDT_ERR_BADSTRUCTURE)]
            ELSE [tag |-> t, nextoffset |-> FDT_TAGALIGN(off)]
    IN
    IF tagp = NULL
    THEN IF ~valid
         THEN [tag |-> FDT_END, nextoffset |-> Err(FDT_ERR_TRUNCATED)]
         ELSE [tag |-> Fault, nextoffset |-> Err(FDT_ERR_TRUNCATED)]
    ELSE IF t = FDT_BEGIN_NODE
    THEN IF ~valid /\ name.p = NULL
         THEN [tag |-> FDT_END, nextoffset |-> Err(FDT_ERR_BADSTRUCTURE)]
         ELSE Finish(name.offset)
    ELSE IF t = FDT_PROP
    THEN IF lenp = NULL
         THEN IF ~valid
              THEN [tag |-> FDT_END, nextoffset |-> Err(FDT_ERR_BADSTRUCTURE)]
              ELSE [tag |-> Fault, nextoffset |-> Err(FDT_ERR_BADSTRUCTURE)]
         ELSE Finish(off3)
    ELSE IF t \in {FDT_END, FDT_END_NODE, FDT_NOP}
    THEN Finish(off1)
    ELSE [tag |-> FDT_END, nextoffset |-> Err(FDT_ERR_BADSTRUCTURE)]

-----------------------------------------------------------------------------
(* Tree traversal *)

fdt_check_node_offset_(f, assume, mem, off) ==
    IF ~can_assume_(assume, ASSUME_VALID_INPUT)
       /\ (IsNeg(off) \/ off[2] % FDT_TAGSIZE # 0)
    THEN Neg32(U32(FDT_ERR_BADOFFSET))
    ELSE IF fdt_next_tag(f, assume, mem, off).tag # FDT_BEGIN_NODE
    THEN Neg32(U32(FDT_ERR_BADOFFSET))
    ELSE fdt_next_tag(f, assume, mem, off).nextoffset

MaxWords == 3

WalkWords ==
    {FDT_BEGIN_NODE, FDT_END_NODE, FDT_PROP, FDT_NOP, FDT_END,
     <<24832, 0>>,          \* the name "a" and its NUL
     <<65535, 65524>>}      \* 0xfffffff4

WalkBlobs ==
    [addr              : {4096},
     magic             : {<<208, 13, 254, 237>>},
     totalsize         : Stored({U32(48), U32(64)}),
     off_dt_struct     : Stored({U32(40)}),
     off_dt_strings    : Stored({U32(64)}),
     off_mem_rsvmap    : Stored({U32(40)}),
     version           : Stored({U32(15), U32(17)}),
     last_comp_version : Stored({U32(2)}),
     boot_cpuid_phys   : Stored({U32(0)}),
     size_dt_strings   : Stored({U32(0)}),
     size_dt_struct    : Stored({U32(12), U32(24)})]

InitWalk ==
    /\ assume_mask \in {0, ASSUME_LATEST}
    /\ pc = "idle"
    /\ fdt \in WalkBlobs
    /\ ret = 0
    /\ loaded = {}
    /\ blk = <<>>
    /\ blk_ret = FALSE
    /\ dt \in [1..MaxWords -> WalkWords]
    /\ fill \in {U32(0), FDT_NOP}
    /\ depth = NULL
    /\ offset = U32(0)
    /\ nextoffset = U32(0)
    /\ tag = NoTag
    /\ node_ret = U32(0)
    /\ ov = NotLoaded

Mem == [dt |-> dt, fill |-> fill]

\* fdt_next_node is entered: nextoffset = 0, and a non-negative offset is
\* checked to be that of a node
Call_fdt_next_node ==
    /\ pc = "idle"
    /\ \E off \in {Neg32(U32(1)), U32(0), U32(4), U32(8)}, d \in {NULL, <<0>>, <<1>>} :
         LET checked == fdt_check_node_offset_(fdt, assume_mask, Mem, off)
         IN  /\ offset' = off
             /\ depth' = d
             /\ IF ~IsNeg(off)
                THEN /\ nextoffset' = checked
                     /\ IF IsNeg(checked)
                        THEN pc' = "done" /\ node_ret' = checked
                        ELSE pc' = "loop" /\ UNCHANGED node_ret
                ELSE /\ nextoffset' = U32(0)
                     /\ pc' = "loop"
                     /\ UNCHANGED node_ret
    /\ UNCHANGED <<assume_mask, fdt, ret, loaded, blk, blk_ret, dt, fill, tag, ov>>

depth_below_start_at_zero(d) == d # NULL /\ d[1] - 1 <= 0

\* depth && ((--(*depth)) < 0)
depth_below_start(d) == d # NULL /\ d[1] - 1 < 0

\* one pass through the do-while body of fdt_next_node
Step_fdt_next_node ==
    /\ pc = "loop"
    /\ LET r == fdt_next_tag(fdt, assume_mask, Mem, nextoffset)
           Return(v) == pc' = "done" /\ node_ret' = v
           Again == pc' = "loop" /\ UNCHANGED node_ret
       IN  /\ offset' = nextoffset
           /\ tag' = r.tag
           /\ nextoffset' = r.nextoffset
           /\ CASE r.tag \in {FDT_PROP, FDT_NOP} ->
                     Again /\ UNCHANGED depth
                [] r.tag = FDT_BEGIN_NODE ->
                     /\ depth' = IF depth # NULL THEN <<depth[1] + 1>> ELSE depth
                     /\ Return(nextoffset)
                [] r.tag = FDT_END_NODE ->
                     /\ depth' = IF depth # NULL THEN <<depth[1] - 1>> ELSE depth
                     /\ IF depth_below_start(depth)
                        THEN Return(r.nextoffset)
                        ELSE Again
                [] r.tag = FDT_END ->
                     /\ UNCHANGED depth
                     /\ IF \/ ~IsNeg(r.nextoffset)
                           \/ (r.nextoffset = Neg32(U32(FDT_ERR_TRUNCATED))
                               /\ depth = NULL)
                        THEN Return(Neg32(U32(FDT_ERR_NOTFOUND)))
                        ELSE Return(r.nextoffset)
                [] OTHER ->
                     pc' = "fault" /\ UNCHANGED <<depth, node_ret>>
    /\ UNCHANGED <<assume_mask, fdt, ret, loaded, blk, blk_ret, dt, fill, ov>>

NextWalk == Call_fdt_next_node \/ Step_fdt_next_node

SpecWalk == InitWalk /\ [][NextWalk]_vars

\* C10: with no assumptions set, every fdt_next_tag call made by fdt_next_node
\* that returns a tag other than END leaves next_offset strictly greater than
\* the offset it was called with, so that the walk ends within totalsize.
C10_TagStepsAdvance ==
    (assume_mask = 0 /\ pc \in {"loop", "done"} /\ tag # NoTag /\ tag # FDT_END)
        => SLt32(offset, nextoffset)

\* the carry out of the 32-bit sum a + b
Carry32(a, b) == (a[1] + b[1] + ((a[2] + b[2]) \div H)) \div H

\* the bytes before offset end of the structure block lie inside the blob's
\* totalsize, and inside size_dt_struct where the header version carries it
SpanInside(f, end) ==
    /\ Carry32(end, fdt_off_dt_struct(f)) = 0
    /\ Le32(Add32(end, fdt_off_dt_struct(f)), fdt_totalsize(f))
    /\ (~Lt32(fdt_version(f), U32(17)) => Le32(end, fdt_size_dt_struct(f)))

\* the offset after the NUL that ends the name starting at offset o
RECURSIVE NameEnd(_, _)
NameEnd(mem, o) ==
    IF ByteAt(mem, o) = 0 THEN Add32(o, U32(1)) ELSE NameEnd(mem, Add32(o, U32(1)))

\* the record that starts at offset off (tag word, name with its NUL, or
\* property header, value and legacy padding) ends, counted without wrapping,
\* inside the structure block and the blob
RecordInBounds(f, mem, off) ==
    LET body == Add32(off, U32(FDT_TAGSIZE))
        word == fdt32_to_cpu_at(mem, off)
        len  == fdt32_to_cpu_at(mem, body)
        val  == Add32(off, U32(SIZEOF_FDT_PROPERTY))
        end  == Add32(val, len)
        pad  == /\ Lt32(fdt_version(f), U32(16))
                /\ Le32(U32(8), len)
                /\ val[2] % 8 # 0
    IN  /\ ~IsNeg(off)
        /\ SpanInside(f, body)
        /\ word = FDT_BEGIN_NODE => SpanInside(f, NameEnd(mem, body))
        /\ word = FDT_PROP =>
              /\ SpanInside(f, val)
              /\ Carry32(val, len) = 0
              /\ pad => Carry32(end, U32(4)) = 0
              /\ SpanInside(f, IF pad THEN Add32(end, U32(4)) ELSE end)

\* C11: with no assumptions set, whenever fdt_next_tag returns a tag other
\* than END, the whole record from offset to its end (tag word, name with its
\* NUL, or property header plus value and legacy padding), computed without
\* unsigned wraparound, lies inside the structure block and inside totalsize;
\* a record any part of which is out of bounds yields END with a negative
\* next_offset.
C11_ReturnedRecordInBounds ==
    (assume_mask = 0 /\ pc \in {"loop", "done"} /\ tag # NoTag) =>
        /\ tag # FDT_END => RecordInBounds(fdt, Mem, offset)
        /\ ~RecordInBounds(fdt, Mem, offset) =>
              tag = FDT_END /\ IsNeg(nextoffset)

-----------------------------------------------------------------------------
(* Module init: of_overlay_init *)

\* error codes filp_open hands back through ERR_PTR
OpenErrors == {-2, -13}

\* i_size_read: the size of the file behind dtbpath
FileSizes == {40, 64}

\* addresses kzalloc returns: aligned to at least 8 bytes
BufferAddrs == {4096}

\* the header bytes kernel_read leaves in the buffer: those of the file, or
\* the zeros of kzalloc where nothing was read
FileBlobs ==
    [addr              : BufferAddrs,
     magic             : {<<208, 13, 254, 237>>, <<0, 0, 0, 0>>},
     totalsize         : Stored({U32(36), U32(64)}),
     off_dt_struct     : Stored({U32(40), U32(64)}),
     off_dt_strings    : Stored({U32(64)}),
     off_mem_rsvmap    : Stored({U32(40)}),
     version           : Stored({U32(16), U32(17)}),
     last_comp_version : Stored({U32(16)}),
     boot_cpuid_phys   : Stored({U32(0)}),
     size_dt_strings   : Stored({U32(0)}),
     size_dt_struct    : Stored({U32(0), U32(16)})]

\* of_overlay_fdt_apply: 0 or a negative errno
ApplyResults == {0, -22}

\* what an int that was never assigned may hold when it is returned
StaleInts == {0, 1, -22}

InitOverlay ==
    /\ assume_mask \in AssumeMasks
    /\ pc = "entry"
    /\ fdt = NoBlob
    /\ ret = 0
    /\ loaded = {}
    /\ blk = <<>>
    /\ blk_ret = FALSE
    /\ dt = <<>>
    /\ fill = U32(0)
    /\ depth = NULL
    /\ offset = U32(0)
    /\ nextoffset = U32(0)
    /\ tag = NoTag
    /\ node_ret = U32(0)
    /\ ov = NotLoaded

\* dtbfile = filp_open(dtbpath, O_RDONLY, 0); if (IS_ERR(dtbfile)) goto out
Call_filp_open ==
    /\ pc = "entry"
    /\ \/ /\ ov' = [ov EXCEPT !.dtbfile = <<"file">>,
                               !.calls = Append(@, "filp_open")]
          /\ pc' = "kzalloc"
       \/ \E e \in OpenErrors :
            /\ ov' = [ov EXCEPT !.dtbfile = <<"ERR_PTR", e>>,
                                 !.ret = <<e>>,
                                 !.calls = Append(@, "filp_open")]
            /\ pc' = "out"
    /\ UNCHANGED <<assume_mask, fdt, ret, loaded, blk, blk_ret, dt, fill, depth,
                   offset, nextoffset, tag, node_ret>>

kzalloc_failed_goto_out == "out"

\* goto cleanup_file;
kzalloc_failed_goto == "cleanup_file"

\* size = i_size_read(...); dtb_begin = kzalloc(size, GFP_KERNEL);
\* if (!dtb_begin) goto cleanup_file
Call_kzalloc ==
    /\ pc = "kzalloc"
    /\ \E n \in FileSizes :
         \/ \E a \in BufferAddrs :
              /\ ov' = [ov EXCEPT !.size = n, !.dtb_begin = <<a>>,
                                   !.calls = Append(@, "kzalloc")]
              /\ pc' = "kernel_read"
         \/ /\ ov' = [ov EXCEPT !.size = n, !.dtb_begin = <<0>>,
                                 !.calls = Append(@, "kzalloc")]
            /\ pc' = kzalloc_failed_goto
    /\ UNCHANGED <<assume_mask, fdt, ret, loaded, blk, blk_ret, dt, fill, depth,
                   offset, nextoffset, tag, node_ret>>

\* kernel_read(dtbfile, dtb_begin, size, &pos): its result is not looked at
Call_kernel_read ==
    /\ pc = "kernel_read"
    /\ \E f \in FileBlobs :
         /\ f.addr = ov.dtb_begin[1]
         /\ fdt' = f
    /\ ov' = [ov EXCEPT !.calls = Append(@, "kernel_read")]
    /\ pc' = "fdt_check_header"
    /\ UNCHANGED <<assume_mask, ret, loaded, blk, blk_ret, dt, fill, depth,
                   offset, nextoffset, tag, node_ret>>

\* printk("TEST Err %d\n", fdt_check_header(dtb_begin))
Print_fdt_check_header ==
    /\ pc = "fdt_check_header"
    /\ LET r == fdt_check_header(fdt, assume_mask)
       IN  ret' = r.rc /\ loaded' = r.loaded
    /\ ov' = [ov EXCEPT !.calls = Append(@, "fdt_check_header")]
    /\ pc' = "debug"
    /\ UNCHANGED <<assume_mask, fdt, blk, blk_ret, dt, fill, depth, offset,
                   nextoffset, tag, node_ret>>

\* debug(): works on of_root only
Call_debug ==
    /\ pc = "debug"
    /\ ov' = [ov EXCEPT !.calls = Append(@, "debug")]
    /\ pc' = "of_overlay_fdt_apply"
    /\ UNCHANGED <<assume_mask, fdt, ret, loaded, blk, blk_ret, dt, fill, depth,
                   offset, nextoffset, tag, node_ret>>

\* ret = of_overlay_fdt_apply(dtb_begin, size, &ovcsid)
Call_of_overlay_fdt_apply ==
    /\ pc = "of_overlay_fdt_apply"
    /\ \E v \in ApplyResults :
         ov' = [ov EXCEPT !.ret = <<v>>,
                          !.calls = Append(@, "of_overlay_fdt_apply")]
    /\ pc' = "cleanup_file"
    /\ UNCHANGED <<assume_mask, fdt, ret, loaded, blk, blk_ret, dt, fill, depth,
                   offset, nextoffset, tag, node_ret>>

\* cleanup_file: filp_close(dtbfile, 0)
Call_filp_close ==
    /\ pc = "cleanup_file"
    /\ ov' = [ov EXCEPT !.calls = Append(@, "filp_close")]
    /\ pc' = "out"
    /\ UNCHANGED <<assume_mask, fdt, ret, loaded, blk, blk_ret, dt, fill, depth,
                   offset, nextoffset, tag, node_ret>>

\* out: return ret; ret was never assigned when kzalloc failed
Return_of_overlay_init ==
    /\ pc = "out"
    /\ \E v \in (IF ov.ret = <<>> THEN {<<s>> : s \in StaleInts} ELSE {ov.ret}) :
         ov' = [ov EXCEPT !.result = v]
    /\ pc' = "returned"
    /\ UNCHANGED <<assume_mask, fdt, ret, loaded, blk, blk_ret, dt, fill, depth,
                   offset, nextoffset, tag, node_ret>>

NextOverlay ==
    \/ Call_filp_open
    \/ Call_kzalloc
    \/ Call_kernel_read
    \/ Print_fdt_check_header
    \/ Call_debug
    \/ Call_of_overlay_fdt_apply
    \/ Call_filp_close
    \/ Return_of_overlay_init

SpecOverlay == InitOverlay /\ [][NextOverlay]_vars

\* the positions in the call history at which call c was made
CallsOf(c) == {i \in DOMAIN ov.calls : ov.calls[i] = c}

FileOpened == ov.dtbfile = <<"file">>

BufferAllocated == ov.dtb_begin # <<>> /\ ov.dtb_begin # <<0>>

\* C13: in of_overlay_init, of_overlay_fdt_apply is invoked (once) exactly
\* when both the file open and the buffer allocation succeeded, always after
\* fdt_check_header has returned and whatever fdt_check_header returned; on
\* every path where the file was opened it is closed exactly once before the
\* function returns, and a file that was not opened is never closed.
C13_ApplyIffOpenedAndAllocated ==
    /\ Cardinality(CallsOf("of_overlay_fdt_apply")) <= 1
    /\ \A i \in CallsOf("of_overlay_fdt_apply") :
          /\ FileOpened /\ BufferAllocated
          /\ \E j \in CallsOf("fdt_check_header") : j < i
          /\ CallsOf("filp_close") = {} \/ \A k \in CallsOf("filp_close") : i < k
    /\ Cardinality(CallsOf("filp_close")) <= 1
    /\ CallsOf("filp_close") # {} => FileOpened
    /\ pc = "returned" =>
          /\ (CallsOf("of_overlay_fdt_apply") # {}
                 <=> (FileOpened /\ BufferAllocated))
          /\ FileOpened => Cardinality(CallsOf("filp_close")) = 1

\* the function has returned after a failing validation: the overlay was
\* applied all the same, and the file closed once
C13_Witness ==
    /\ pc = "returned"
    /\ ret # 0
    /\ Cardinality(CallsOf("of_overlay_fdt_apply")) = 1
    /\ Cardinality(CallsOf("filp_close")) = 1
    /\ ov.result = <<0>>

\* the function has returned after the allocation failed: no apply, one close
C13_AllocationFailedReached ==
    /\ pc = "returned"
    /\ FileOpened /\ ~BufferAllocated
    /\ CallsOf("of_overlay_fdt_apply") = {}
    /\ Cardinality(CallsOf("filp_close")) = 1

====
